---- MODULE Spec2Model ----
(***************************************************************************)
(* GMaps Auto-Order Service (src/index.js).                                *)
(*                                                                         *)
(* One run of run() is modelled await by await: every action is the        *)
(* completion (or rejection) of one awaited call together with the         *)
(* synchronous code that follows it up to the next await.  Strings are     *)
(* sequences of one-character strings, so that LIKE / ILIKE patterns, the  *)
(* "Part N" suffix and the county filter are computed as PostgreSQL and    *)
(* the template literals compute them.                                     *)
(***************************************************************************)
EXTENDS Integers, Sequences, FiniteSets, TLC

VARIABLES
  env,                 \* process.env: which connection strings are set, DRY_RUN
  instant_campaigns,   \* registry store: campaign rows
  jobs_batch,          \* tracker store: batch rows
  run,                 \* per process: the local state of run() and its position
  runs,                \* per process: number of runs started so far
  clean,               \* per process: every finished run so far was a complete non-dry run
  log                  \* the external calls issued by each process in its current run

vars == <<env, instant_campaigns, jobs_batch, run, runs, clean, log>>

\* ---- bounds --------------------------------------------------------------
\* number of successive runs of the process (the cron schedule fires again)
MaxRuns == 2
\* number of campaign rows that are active in the registry
MaxActive == 2
\* number of filler cities assigned to the large campaign
NumFill == 19

\* ---- program constants ---------------------------------------------------
BATCH_SIZE == 2000

CATEGORIES == <<
  "Accountant", "Attorney", "Auto repair shop", "Bank", "Church",
  "Construction company", "Dental clinic", "Doctor", "Funeral home",
  "General contractor", "Gym", "Hardware store", "HVAC contractor",
  "Insurance agency", "Law firm", "Pharmacy", "Place of worship",
  "Real estate agency", "School", "Tax preparation service", "Veterinarian",
  "Appliance store", "Architect", "Assisted living facility", "Auto dealer",
  "Auto parts store", "Bowling alley", "Car rental agency",
  "Child care agency", "Chiropractor", "Community center", "Credit union",
  "Day care center", "Driving school", "Electronics store",
  "Employment agency", "Eye care center", "Financial planner",
  "Fitness center", "Furniture store", "Golf course", "Home goods store",
  "Hospital", "Hotel", "Martial arts school", "Mattress store",
  "Medical clinic", "Movie theater", "Music school", "Nursing home",
  "Optometrist", "Personal trainer", "Physical therapy clinic", "Preschool",
  "Printing service", "Property management company", "Recreation center",
  "Senior center", "Tire shop", "Title company", "Travel agency",
  "Tutoring service", "Urgent care center", "Wedding venue",
  "Wellness center", "Yoga studio", "Addiction treatment center",
  "After school program", "Allergist", "Art gallery", "Art school",
  "Audiologist", "Banquet hall", "Building materials store",
  "Business management consultant", "Cardiologist", "Co-working space",
  "College", "Commercial printer", "Computer consultant",
  "Computer support and services", "Consultant", "Country club",
  "Dance school", "Department store", "Dermatologist", "Engineer",
  "Equipment rental agency", "Event venue", "Gastroenterologist",
  "Gymnastics center", "Hospice", "Indoor playground", "Investment company",
  "Laboratory", "Language school", "Loan agency", "Machine shop",
  "Mental health clinic", "Mortgage lender", "Motorcycle dealer",
  "Neurologist", "Non-profit organization", "Notary public",
  "Nursing agency", "Nutritionist", "Office furniture store",
  "Ophthalmologist", "Orthopedic clinic", "Osteopath", "Pediatrician",
  "Plumbing supply store", "Podiatrist", "Private investigator",
  "Rehabilitation center", "RV dealer", "Sports club", "Surgeon",
  "Swimming pool", "Technical school", "Truck dealer", "Truck repair shop",
  "University", "Urologist", "Vocational school", "Warehouse",
  "Aerospace company", "Association or organization", "Automation company",
  "Biotechnology company", "Blood bank", "Bottling company",
  "Business school", "Call center", "Car inspection station",
  "Chamber of commerce", "Chemical wholesaler", "Computer security service",
  "Computer training school", "Conference center", "Convention center",
  "Corporate office", "Council", "Credit counseling service",
  "Culinary school", "Data recovery service", "Dental laboratory",
  "Diagnostic center", "Dialysis center", "Distribution service",
  "Education center", "Electric motor repair shop",
  "Electrical supply store", "Factory", "Farm equipment supplier",
  "Fertility clinic", "Fitness equipment store", "Flight school",
  "Food processing equipment", "Freight forwarding service", "Geriatrician",
  "Industrial chemicals wholesaler", "Industrial design company",
  "Industrial equipment supplier", "Insurance company", "Labor union",
  "Logistics service", "Management school", "Manufacturer",
  "Medical diagnostic imaging center", "Medical laboratory",
  "Metal fabricator", "Metal supplier", "MRI center",
  "Office space rental agency", "Oncologist", "Otolaryngologist",
  "Outlet store", "Outpatient surgery center", "Packaging supply store",
  "Pain management physician", "Payroll service", "Pharmaceutical company",
  "Plastic fabrication company", "Plastic surgery clinic",
  "Printing equipment supplier", "Psychiatric hospital", "Radiology center",
  "Reproductive health clinic", "Safety equipment supplier",
  "Scientific equipment supplier", "Shipping company", "Shopping mall",
  "Showroom", "Software company", "Special education school",
  "Sports complex", "Sports medicine clinic", "Steel distributor",
  "Steel fabricator", "Student housing center", "Surgical center",
  "Telecommunications service provider", "Tennis court", "Textile mill",
  "Tool store", "Training centre", "Veterinary emergency hospital",
  "Welding supply store", "Wholesaler", "Women's health clinic"
>>

\* ---- strings -------------------------------------------------------------
UpperLetters == <<"A","B","C","D","E","F","G","H","I","J","K","L","M",
                  "N","O","P","Q","R","S","T","U","V","W","X","Y","Z">>
LowerLetters == <<"a","b","c","d","e","f","g","h","i","j","k","l","m",
                  "n","o","p","q","r","s","t","u","v","w","x","y","z">>
DigitChars == <<"0","1","2","3","4","5","6","7","8","9">>

\* the characters used, in code-point order
Ascii == <<" ", "%", "(", ")", ",">> \o DigitChars \o UpperLetters
           \o <<"\\", "_">> \o LowerLetters

Code(c) == CHOOSE i \in 1..Len(Ascii) : Ascii[i] = c

LowerChar(c) ==
  IF \E i \in 1..26 : UpperLetters[i] = c
  THEN LowerLetters[CHOOSE i \in 1..26 : UpperLetters[i] = c]
  ELSE c

Lower(s) == [i \in 1..Len(s) |-> LowerChar(s[i])]

\* s < t, comparing code points (ORDER BY on a text column, C collation)
RECURSIVE StrLess(_, _)
StrLess(s, t) ==
  IF t = <<>> THEN FALSE
  ELSE IF s = <<>> THEN TRUE
  ELSE IF Head(s) = Head(t) THEN StrLess(Tail(s), Tail(t))
  ELSE Code(Head(s)) < Code(Head(t))

\* String(n) of a non-negative integer, as the template literal prints it
RECURSIVE Decimal(_)
Decimal(n) ==
  IF n < 10 THEN <<DigitChars[n + 1]>>
  ELSE Decimal(n \div 10) \o <<DigitChars[(n % 10) + 1]>>

\* PostgreSQL: s LIKE p, with % and _ as wildcards and backslash as the escape
RECURSIVE Like(_, _)
Like(s, p) ==
  IF p = <<>> THEN s = <<>>
  ELSE IF Head(p) = "%"
    THEN Like(s, Tail(p)) \/ (s # <<>> /\ Like(Tail(s), p))
  ELSE IF Head(p) = "_"
    THEN s # <<>> /\ Like(Tail(s), Tail(p))
  ELSE IF Head(p) = "\\" /\ Len(p) >= 2
    THEN s # <<>> /\ Head(s) = p[2] /\ Like(Tail(s), Tail(Tail(p)))
  ELSE s # <<>> /\ Head(s) = Head(p) /\ Like(Tail(s), Tail(p))

\* PostgreSQL: s ILIKE p
ILike(s, p) == Like(Lower(s), Lower(p))

\* ---- registry store (lead-recycling database) ----------------------------
FillState(k) == <<"TX", "OK", "NM">>[(k % 3) + 1]

\* cities(id, city_name, state_code)
cities ==
  { [id |-> 1, city_name |-> <<"A","b">>, state_code |-> "TX"],
    [id |-> 2, city_name |-> <<"a","b">>, state_code |-> "TX"],
    [id |-> 3, city_name |-> <<"A","b">>, state_code |-> "TX"],
    [id |-> 4, city_name |-> <<"A","b">>, state_code |-> "OK"],
    [id |-> 5, city_name |-> <<"X"," ","C","o","u","n","t","y">>, state_code |-> "TX"],
    [id |-> 6, city_name |-> <<"Y"," ","C","O","U","N","T","Y">>, state_code |-> "OK"],
    [id |-> 7, city_name |-> <<"C","d">>, state_code |-> "NM"] }
  \cup { [id |-> 10 + k, city_name |-> <<"F", LowerLetters[k]>>,
          state_code |-> FillState(k)] : k \in 1..NumFill }

\* campaign_cities(campaign_id, city_id)
campaign_cities ==
  { [campaign_id |-> 1, city_id |-> 5] }
  \cup { [campaign_id |-> 3, city_id |-> c] : c \in {1, 2, 3, 5} }
  \cup { [campaign_id |-> 4, city_id |-> 10 + k] : k \in 1..NumFill }
  \cup { [campaign_id |-> 5, city_id |-> 1] }
  \cup { [campaign_id |-> 6, city_id |-> 1] }

\* client_city_claims(client_id, city_id)
client_city_claims ==
  { [client_id |-> 11, city_id |-> 6] }
  \cup { [client_id |-> 12, city_id |-> c] : c \in {1, 4} }
  \cup { [client_id |-> 15, city_id |-> c] : c \in {4, 6, 7} }

NameAX == <<"A", " ", "(", "G", "M", "a", "p", "s", ")", " ", "X">>
NameA == <<"A", " ", "(", "G", "M", "a", "p", "s", ")">>
NameB == <<"B", "\\", " ", "(", "G", "M", "a", "p", "s", ")">>
NameC == <<"C", " ", "(", "g", "m", "a", "p", "s", ")">>
NameD == <<"D", " ", "(", "G", "M", "a", "p", "s", ")">>
NameE == <<"E", " ", "(", "M", "a", "p", "s", ")">>
GMapsPattern == <<"%", "(", "G", "M", "a", "p", "s", ")", "%">>
CountyPattern == <<"%", "c", "o", "u", "n", "t", "y", "%">>
PartInfix == <<" ", "P", "a", "r", "t", " ">>

\* instant_campaigns(id, campaign_name, client_id), before is_active is chosen
CampaignPool ==
  { [id |-> 1, campaign_name |-> NameD,  client_id |-> 11],
    [id |-> 2, campaign_name |-> NameAX, client_id |-> 12],
    [id |-> 3, campaign_name |-> NameA,  client_id |-> 13],
    [id |-> 4, campaign_name |-> NameC,  client_id |-> 14],
    [id |-> 5, campaign_name |-> NameB,  client_id |-> 15],
    [id |-> 6, campaign_name |-> NameE,  client_id |-> 16] }

Registry(active) ==
  { [id |-> c.id, campaign_name |-> c.campaign_name, client_id |-> c.client_id,
     is_active |-> (c.id \in active)] : c \in CampaignPool }

\* ---- tracker store (jobs_batch) ------------------------------------------
\* lead_recycling_campaign_id 0 and campaign_name <<>> stand for NULL: neither
\* ever equals a campaign's id or name.
OldName == <<"o","l","d">>

LegacyRows ==
  { [batch_id |-> 1, name |-> NameA \o PartInfix \o <<"2">>,
     campaign_name |-> <<>>, lead_recycling_campaign_id |-> 0],
    [batch_id |-> 1, name |-> OldName,
     campaign_name |-> NameC, lead_recycling_campaign_id |-> 0],
    [batch_id |-> 1, name |-> OldName,
     campaign_name |-> <<>>, lead_recycling_campaign_id |-> 2],
    [batch_id |-> 1, name |-> NameB \o PartInfix \o <<"1">>,
     campaign_name |-> <<>>, lead_recycling_campaign_id |-> 0] }

TrackerChoices == { {} } \cup { {b} : b \in LegacyRows }

\* ---- the SQL statements ---------------------------------------------------
\* a variant that orders by id descending
RECURSIVE OrderById_Desc(_)
OrderById_Desc(rows) ==
  IF rows = {} THEN <<>>
  ELSE LET first == CHOOSE x \in rows : \A y \in rows : x.id >= y.id
       IN  <<first>> \o OrderById_Desc(rows \ {first})

\* ORDER BY ic.id ASC
RECURSIVE OrderById(_)
OrderById(rows) ==
  IF rows = {} THEN <<>>
  ELSE LET first == CHOOSE x \in rows : \A y \in rows : x.id <= y.id
       IN  <<first>> \o OrderById(rows \ {first})

StateRank(code) == CHOOSE i \in 1..3 : <<"NM", "OK", "TX">>[i] = code

\* ORDER BY c.city_name: rows with equal city_name come in either order
\* (tiesUp chooses it)
CityBefore(a, b, tiesUp) ==
  \/ StrLess(a.city_name, b.city_name)
  \/ /\ a.city_name = b.city_name
     /\ IF tiesUp THEN StateRank(a.state_code) <= StateRank(b.state_code)
                  ELSE StateRank(a.state_code) >= StateRank(b.state_code)

RECURSIVE OrderByCityName(_, _)
OrderByCityName(rows, tiesUp) ==
  IF rows = {} THEN <<>>
  ELSE LET first == CHOOSE x \in rows : \A y \in rows : CityBefore(x, y, tiesUp)
       IN  <<first>> \o OrderByCityName(rows \ {first}, tiesUp)

\* SELECT ic.id, ic.campaign_name FROM instant_campaigns ic
\* WHERE ic.campaign_name ILIKE '%(GMaps)%' AND ic.is_active = true ORDER BY ic.id ASC
SelectCampaigns(table) ==
  LET hit == { [id |-> c.id, campaign_name |-> c.campaign_name] :
                 c \in { x \in table : ILike(x.campaign_name, GMapsPattern)
                                        /\ x.is_active } }
  IN  OrderById(hit)

\* a variant of the check that looks at campaign_name only
CountExisting_CampaignNameOnly(table, campaign) ==
  Cardinality({ b \in table : b.campaign_name = campaign.campaign_name })

\* a variant of the check that matches the batch name exactly and nothing else
CountExisting_ExactName(table, campaign) ==
  Cardinality({ b \in table : b.name = campaign.campaign_name })

\* SELECT COUNT(*) FROM jobs_batch WHERE lead_recycling_campaign_id = $1
\*    OR campaign_name = $2 OR name LIKE $3, with $3 = `${campaign_name}%`
CountExisting(table, campaign) ==
  Cardinality({ b \in table :
     \/ b.lead_recycling_campaign_id = campaign.id
     \/ b.campaign_name = campaign.campaign_name
     \/ Like(b.name, campaign.campaign_name \o <<"%">>) })

\* the city ids of the subquery "combined": campaign_cities UNION client_city_claims
CombinedCityIds(table, id) ==
  { cc.city_id : cc \in { x \in campaign_cities : x.campaign_id = id } }
  \cup
  { ccc.city_id : ccc \in { x \in client_city_claims :
        \E ic \in table : ic.client_id = x.client_id /\ ic.id = id } }

\* a variant whose county filter is the case-sensitive LIKE
DistinctCities_CaseSensitive(table, id) ==
  { [city_name |-> c.city_name, state_code |-> c.state_code] :
      c \in { x \in cities : x.id \in CombinedCityIds(table, id)
                              /\ ~Like(x.city_name, CountyPattern) } }

\* a variant that selects the city id as well, so DISTINCT no longer merges rows
DistinctCities_WithId(table, id) ==
  { [id |-> c.id, city_name |-> c.city_name, state_code |-> c.state_code] :
      c \in { x \in cities : x.id \in CombinedCityIds(table, id)
                              /\ ~ILike(x.city_name, CountyPattern) } }

\* SELECT DISTINCT c.city_name, c.state_code ... JOIN cities c ON c.id = combined.city_id
\* WHERE c.city_name NOT ILIKE '%county%'
DistinctCities(table, id) ==
  { [city_name |-> c.city_name, state_code |-> c.state_code] :
      c \in { x \in cities : x.id \in CombinedCityIds(table, id)
                              /\ ~ILike(x.city_name, CountyPattern) } }

SelectCities(table, id, tiesUp) ==
  OrderByCityName(DistinctCities(table, id), tiesUp)

\* a variant of the correction write whose WHERE clause matches no row
UpdateCampaignName_NoRow(table, baseName, batchId) ==
  { IF b.batch_id = batchId /\ b.name = baseName
    THEN [b EXCEPT !.campaign_name = baseName] ELSE b : b \in table }

\* UPDATE jobs_batch SET campaign_name = $1 WHERE batch_id = $2
UpdateCampaignName(table, baseName, batchId) ==
  { IF b.batch_id = batchId THEN [b EXCEPT !.campaign_name = baseName] ELSE b :
      b \in table }

\* ---- the dashboard (POST /api/batches) ------------------------------------
\* The dashboard stores the new batch under a fresh id with the submitted name,
\* the same campaign_name and the source campaign id, and answers with the id.
FreshBatchId(table) ==
  1 + (IF table = {} THEN 0
       ELSE CHOOSE m \in { b.batch_id : b \in table } :
              \A b \in table : b.batch_id <= m)

DashboardCreate(table, payload) ==
  table \cup { [batch_id |-> FreshBatchId(table),
                name |-> payload.name,
                campaign_name |-> payload.name,
                lead_recycling_campaign_id |-> payload.leadRecyclingCampaignId] }

\* ---- the query planner ----------------------------------------------------
\* `${cat} in ${city.city_name}, ${city.state_code}`
Query(cat, city) == <<cat, " ", "i", "n", " ">> \o city.city_name
                      \o <<",", " ", city.state_code>>

\* lines 176-182: for each city, every category in catalog order
RECURSIVE BuildQueries(_)
BuildQueries(allCities) ==
  IF allCities = <<>> THEN <<>>
  ELSE [k \in 1..Len(CATEGORIES) |-> Query(CATEGORIES[k], Head(allCities))]
       \o BuildQueries(Tail(allCities))

\* a variant that pushes every state code to an array instead of a Set
BuildStates_NoDedup(allCities) ==
  [j \in 1..Len(allCities) |-> allCities[j].state_code]

\* [...targetStates]: the distinct state codes in order of first insertion
RECURSIVE AddStates(_, _)
AddStates(allCities, acc) ==
  IF allCities = <<>> THEN acc
  ELSE AddStates(Tail(allCities),
         IF \E j \in 1..Len(acc) : acc[j] = Head(allCities).state_code
         THEN acc ELSE Append(acc, Head(allCities).state_code))

BuildStates(allCities) == AddStates(allCities, <<>>)

\* Math.ceil(n / BATCH_SIZE)
TotalParts(n) == (n + BATCH_SIZE - 1) \div BATCH_SIZE

\* a variant of the slice whose end is one short
Chunk_ShortSlice(queries, i) ==
  LET from == i * BATCH_SIZE
      to   == IF (i + 1) * BATCH_SIZE - 1 < Len(queries)
              THEN (i + 1) * BATCH_SIZE - 1 ELSE Len(queries)
  IN  IF from >= Len(queries) THEN <<>> ELSE SubSeq(queries, from + 1, to)

\* queries.slice(i * BATCH_SIZE, (i + 1) * BATCH_SIZE)
Chunk(queries, i) ==
  LET from == i * BATCH_SIZE
      to   == IF (i + 1) * BATCH_SIZE < Len(queries)
              THEN (i + 1) * BATCH_SIZE ELSE Len(queries)
  IN  IF from >= Len(queries) THEN <<>> ELSE SubSeq(queries, from + 1, to)

\* a variant of the name that carries the part suffix even for a single part
BatchName_AlwaysPart(baseName, totalParts, partNum) ==
  baseName \o PartInfix \o Decimal(partNum)

\* totalParts > 1 ? `${baseName} Part ${partNum}` : baseName
BatchName(baseName, totalParts, partNum) ==
  IF totalParts > 1 THEN baseName \o PartInfix \o Decimal(partNum) ELSE baseName

Payload(l) ==
  [ name |-> BatchName(l.campaigns[l.ci].campaign_name, l.totalParts, l.i + 1),
    queries |-> Chunk(l.queries, l.i),
    autoImport |-> TRUE,
    targetStates |-> l.targetStates,
    leadRecyclingCampaignId |-> l.campaigns[l.ci].id ]

\* ---- run(): local state ---------------------------------------------------
Procs == {1, 2}

\* a process that has not been launched / is never launched
Idle ==
  [ pc |-> "idle", pools |-> FALSE, campaigns |-> <<>>, ci |-> 0,
    created |-> 0, skipped |-> 0, allCities |-> <<>>, queries |-> <<>>,
    targetStates |-> <<>>, totalParts |-> 0, i |-> 0, batchId |-> 0,
    err |-> FALSE, ended |-> [recycling |-> 0, gmaps |-> 0], exitCode |-> -1 ]

Off == [Idle EXCEPT !.pc = "off"]

Event(p, op, l) ==
  [ proc |-> p, op |-> op,
    cid |-> IF l.ci \in 1..Len(l.campaigns) THEN l.campaigns[l.ci].id ELSE 0,
    part |-> l.i, ok |-> TRUE, cnt |-> 0, cities |-> <<>>, planned |-> 0,
    name |-> <<>>, queries |-> <<>>,
    autoImport |-> FALSE, targetStates |-> <<>>, lrc |-> 0 ]

\* the log keeps each process's calls in the order issued, process by process
Record(lg, e) ==
  SelectSeq(lg, LAMBDA x : x.proc <= e.proc) \o <<e>>
    \o SelectSeq(lg, LAMBDA x : x.proc > e.proc)

PostEvent(p, l, ok) ==
  [ Event(p, "post", l) EXCEPT
      !.ok = ok, !.name = Payload(l).name, !.queries = Payload(l).queries,
      !.autoImport = Payload(l).autoImport,
      !.targetStates = Payload(l).targetStates,
      !.lrc = Payload(l).leadRecyclingCampaignId ]

\* the per-campaign block-scoped locals go out of scope
Forget(l) ==
  [l EXCEPT !.allCities = <<>>, !.queries = <<>>, !.targetStates = <<>>,
            !.totalParts = 0, !.i = 0, !.batchId = 0]

\* after the loop no campaign is current
OutsideLoop(l) == [Forget(l) EXCEPT !.ci = 0]

\* `continue` / end of the loop body: the next campaign, or line 233 and finally
Continue(l) ==
  IF l.ci < Len(l.campaigns)
  THEN [Forget(l) EXCEPT !.ci = @ + 1, !.pc = "check"]
  ELSE [Forget(l) EXCEPT !.pc = "end_recycling"]

\* a variant that counts a campaign, not a part: created++ after the last part
AfterPart_CountCampaign(l) ==
  IF l.i < l.totalParts - 1 THEN [l EXCEPT !.pc = "delay"]
  ELSE Continue([l EXCEPT !.created = @ + 1])

\* a variant that also waits after the last part
AfterPart_AlwaysDelay(l) == [l EXCEPT !.created = @ + 1, !.pc = "delay"]

\* lines 223-229: created++, then the delay or the end of the parts loop
AfterPart(l) ==
  LET m == [l EXCEPT !.created = @ + 1]
  IN  IF m.i < m.totalParts - 1 THEN [m EXCEPT !.pc = "delay"] ELSE Continue(m)

\* lines 172-184: the query list, the state codes and the number of parts
Planned(l, allCities) ==
  [l EXCEPT !.allCities = allCities,
            !.queries = BuildQueries(allCities),
            !.targetStates = BuildStates(allCities),
            !.totalParts = TotalParts(Len(BuildQueries(allCities)))]

\* a variant of the plan's end that does not look at the dry-run toggle
AfterPlanning_IgnoreDryRun(planned, dryRun) ==
  IF 0 < planned.totalParts THEN [planned EXCEPT !.i = 0, !.pc = "post"]
  ELSE Continue(planned)

\* lines 187-197: the dry-run toggle ends the campaign here, else the parts loop
\* starts (and ends at once when there is no part)
AfterPlanning(planned, dryRun) ==
  IF dryRun THEN Continue(planned)
  ELSE IF 0 < planned.totalParts THEN [planned EXCEPT !.i = 0, !.pc = "post"]
  ELSE Continue(planned)

\* a variant without the test for an empty city list
AfterResolve_NoEmptyCheck(l, allCities, dryRun) ==
  AfterPlanning(Planned(l, allCities), dryRun)

\* lines 164-197: no city means skipped++ and continue, else the plan
AfterResolve(l, allCities, dryRun) ==
  IF Len(allCities) = 0 THEN Continue([l EXCEPT !.skipped = @ + 1])
  ELSE AfterPlanning(Planned(l, allCities), dryRun)

\* a variant that swallows the exception after the cleanup
Throw_Swallowed(l) == [l EXCEPT !.pc = "end_recycling"]

\* a variant that catches the exception per campaign and goes on with the next
Throw_Continue(l) == Continue([l EXCEPT !.err = TRUE])

\* a rejected await inside try: the exception leaves the loop, finally runs
Throw(l) == [l EXCEPT !.err = TRUE, !.pc = "end_recycling"]

\* ---- actions --------------------------------------------------------------
\* lines 242, 99-108: the cron job starts the process; run() checks the env
StartRun(p) ==
  /\ run[p].pc \in {"idle", "exited"}
  /\ runs[p] < MaxRuns
  /\ runs' = [runs EXCEPT ![p] = @ + 1]
  /\ clean' = [clean EXCEPT ![p] =
        IF run[p].pc = "idle" THEN @
        ELSE @ /\ run[p].exitCode = 0 /\ ~env.DRY_RUN]
  /\ log' = SelectSeq(log, LAMBDA e : e.proc # p)
  /\ run' = [run EXCEPT ![p] =
        IF ~env.RECYCLING_DB_URL \/ ~env.GMAPS_DB_URL
        THEN [Idle EXCEPT !.pc = "exited", !.err = TRUE, !.exitCode = 1]
        ELSE [Idle EXCEPT !.pc = "fetch", !.pools = TRUE]]
  /\ UNCHANGED <<env, instant_campaigns, jobs_batch>>

\* lines 110-123: the campaign read resolves
FetchCampaigns(p) ==
  /\ run[p].pc = "fetch"
  /\ LET l == [run[p] EXCEPT !.campaigns = SelectCampaigns(instant_campaigns),
                             !.created = 0, !.skipped = 0]
     IN  /\ run' = [run EXCEPT ![p] =
                IF Len(l.campaigns) = 0 THEN [l EXCEPT !.pc = "end_recycling"]
                ELSE [l EXCEPT !.ci = 1, !.pc = "check"]]
         /\ log' = Record(log, Event(p, "campaigns", run[p]))
  /\ UNCHANGED <<env, instant_campaigns, jobs_batch, runs, clean>>

\* variant: the check also counts a campaign another run is working on
CheckExisting_Exclusive(p) ==
  /\ run[p].pc = "check"
  /\ LET l == run[p]
         busy == \E q \in Procs \ {p} :
                    /\ run[q].pc \in {"cities", "post", "update", "delay"}
                    /\ run[q].campaigns[run[q].ci].id = l.campaigns[l.ci].id
         cnt == CountExisting(jobs_batch, l.campaigns[l.ci])
                  + (IF busy THEN 1 ELSE 0)
     IN  /\ run' = [run EXCEPT ![p] =
                IF cnt > 0 THEN Continue([l EXCEPT !.skipped = @ + 1])
                ELSE [l EXCEPT !.pc = "cities"]]
         /\ log' = Record(log, [Event(p, "check", l) EXCEPT !.cnt = cnt])
  /\ UNCHANGED <<env, instant_campaigns, jobs_batch, runs, clean>>

\* lines 129-141: the existing-work check resolves
CheckExisting(p) ==
  /\ run[p].pc = "check"
  /\ LET l == run[p]
         cnt == CountExisting(jobs_batch, l.campaigns[l.ci])
     IN  /\ run' = [run EXCEPT ![p] =
                IF cnt > 0 THEN Continue([l EXCEPT !.skipped = @ + 1])
                ELSE [l EXCEPT !.pc = "cities"]]
         /\ log' = Record(log, [Event(p, "check", l) EXCEPT !.cnt = cnt])
  /\ UNCHANGED <<env, instant_campaigns, jobs_batch, runs, clean>>

\* lines 145-197: the target query resolves; the queries are planned
ResolveCities(p) ==
  /\ run[p].pc = "cities"
  /\ \E tiesUp \in BOOLEAN :
       LET l == run[p]
           allCities == SelectCities(instant_campaigns, l.campaigns[l.ci].id, tiesUp)
       IN  /\ run' = [run EXCEPT ![p] = AfterResolve(l, allCities, env.DRY_RUN)]
           /\ log' = Record(log,
                  [Event(p, "cities", l) EXCEPT
                      !.cities = allCities,
                      !.planned = Len(Planned(l, allCities).queries)])
  /\ UNCHANGED <<env, instant_campaigns, jobs_batch, runs, clean>>

\* lines 197-212, 216, 223-229: the submission resolves
PostBatch(p) ==
  /\ run[p].pc = "post"
  /\ LET l == run[p]
         m == [l EXCEPT !.batchId = FreshBatchId(jobs_batch)]
     IN  /\ jobs_batch' = DashboardCreate(jobs_batch, Payload(l))
         /\ run' = [run EXCEPT ![p] =
                IF l.totalParts > 1 THEN [m EXCEPT !.pc = "update"]
                ELSE AfterPart(m)]
         /\ log' = Record(log, PostEvent(p, l, TRUE))
  /\ UNCHANGED <<env, instant_campaigns, runs, clean>>

\* lines 210-212: the submission rejects (error status, network error, timeout);
\* the dashboard may or may not have stored the batch
PostBatchRejects(p) ==
  /\ run[p].pc = "post"
  /\ \E stored \in BOOLEAN :
       jobs_batch' = IF stored THEN DashboardCreate(jobs_batch, Payload(run[p]))
                     ELSE jobs_batch
  /\ run' = [run EXCEPT ![p] = Throw(@)]
  /\ log' = Record(log, PostEvent(p, run[p], FALSE))
  /\ UNCHANGED <<env, instant_campaigns, runs, clean>>

\* lines 216-229: the correction write resolves
UpdateBatch(p) ==
  /\ run[p].pc = "update"
  /\ LET l == run[p]
     IN  /\ jobs_batch' = UpdateCampaignName(jobs_batch,
                              l.campaigns[l.ci].campaign_name, l.batchId)
         /\ run' = [run EXCEPT ![p] = AfterPart(l)]
         /\ log' = Record(log, Event(p, "update", l))
  /\ UNCHANGED <<env, instant_campaigns, runs, clean>>

\* lines 227-229 and the loop header: the delay elapses
Delay(p) ==
  /\ run[p].pc = "delay"
  /\ run' = [run EXCEPT ![p] = [@ EXCEPT !.i = @ + 1, !.pc = "post"]]
  /\ log' = Record(log, Event(p, "delay", run[p]))
  /\ UNCHANGED <<env, instant_campaigns, jobs_batch, runs, clean>>

\* lines 110, 129, 145, 217: a store query rejects
QueryRejects(p) ==
  /\ run[p].pc \in {"fetch", "check", "cities", "update"}
  /\ run' = [run EXCEPT ![p] = Throw(@)]
  /\ log' = Record(log,
        [Event(p, IF run[p].pc = "fetch" THEN "campaigns" ELSE run[p].pc, run[p])
           EXCEPT !.ok = FALSE])
  /\ UNCHANGED <<env, instant_campaigns, jobs_batch, runs, clean>>

\* line 235: recycling.end() resolves
EndRecycling(p) ==
  /\ run[p].pc = "end_recycling"
  /\ run' = [run EXCEPT ![p] =
        [@ EXCEPT !.ended.recycling = @ + 1, !.pc = "end_gmaps"]]
  /\ log' = Record(log, Event(p, "end_recycling", OutsideLoop(run[p])))
  /\ UNCHANGED <<env, instant_campaigns, jobs_batch, runs, clean>>

\* line 235: recycling.end() rejects; line 236 is not reached; lines 244-247
EndRecyclingRejects(p) ==
  /\ run[p].pc = "end_recycling"
  /\ run' = [run EXCEPT ![p] =
        [@ EXCEPT !.ended.recycling = @ + 1, !.err = TRUE,
                  !.pc = "exited", !.exitCode = 1]]
  /\ log' = Record(log, [Event(p, "end_recycling", OutsideLoop(run[p])) EXCEPT !.ok = FALSE])
  /\ UNCHANGED <<env, instant_campaigns, jobs_batch, runs, clean>>

\* line 236: gmaps.end() resolves; lines 242-247: the process exits
EndGmaps(p) ==
  /\ run[p].pc = "end_gmaps"
  /\ run' = [run EXCEPT ![p] =
        [@ EXCEPT !.ended.gmaps = @ + 1, !.pc = "exited",
                  !.exitCode = IF run[p].err THEN 1 ELSE 0]]
  /\ log' = Record(log, Event(p, "end_gmaps", OutsideLoop(run[p])))
  /\ UNCHANGED <<env, instant_campaigns, jobs_batch, runs, clean>>

\* line 236: gmaps.end() rejects; lines 244-247
EndGmapsRejects(p) ==
  /\ run[p].pc = "end_gmaps"
  /\ run' = [run EXCEPT ![p] =
        [@ EXCEPT !.ended.gmaps = @ + 1, !.err = TRUE,
                  !.pc = "exited", !.exitCode = 1]]
  /\ log' = Record(log, [Event(p, "end_gmaps", OutsideLoop(run[p])) EXCEPT !.ok = FALSE])
  /\ UNCHANGED <<env, instant_campaigns, jobs_batch, runs, clean>>

\* ---- specification --------------------------------------------------------
\* at most MaxActive campaigns are active; the large campaign (id 4) is active
\* alone or together with the campaign after it
ActiveSets ==
  { a \in SUBSET { c.id : c \in CampaignPool } :
      Cardinality(a) <= MaxActive /\ (4 \in a => a \subseteq {4, 5}) }

EnvChoices ==
  { [RECYCLING_DB_URL |-> r, GMAPS_DB_URL |-> g, DRY_RUN |-> d] :
      r \in BOOLEAN, g \in BOOLEAN, d \in BOOLEAN }

Init ==
  /\ env \in EnvChoices
  /\ \E active \in ActiveSets : instant_campaigns = Registry(active)
  /\ jobs_batch \in TrackerChoices
  /\ run = [p \in Procs |-> IF p = 1 THEN Idle ELSE Off]
  /\ runs = [p \in Procs |-> 0]
  /\ clean = [p \in Procs |-> TRUE]
  /\ log = <<>>

Next ==
  \E p \in Procs :
    \/ StartRun(p)
    \/ FetchCampaigns(p)
    \/ CheckExisting(p)
    \/ ResolveCities(p)
    \/ PostBatch(p)
    \/ PostBatchRejects(p)
    \/ UpdateBatch(p)
    \/ Delay(p)
    \/ QueryRejects(p)
    \/ EndRecycling(p)
    \/ EndRecyclingRejects(p)
    \/ EndGmaps(p)
    \/ EndGmapsRejects(p)

Spec == Init /\ [][Next]_vars

\* two runs started against the same stores (lines 242-247 executed by two
\* node processes): both environments complete, the tracker empty, one active
\* campaign; each process is at its last run, and its stores are shared with
\* the other one
RaceSets == { {4}, {5} }

InitRace ==
  /\ env = [RECYCLING_DB_URL |-> TRUE, GMAPS_DB_URL |-> TRUE, DRY_RUN |-> FALSE]
  /\ \E active \in RaceSets : instant_campaigns = Registry(active)
  /\ jobs_batch = {}
  /\ run = [p \in Procs |-> Idle]
  /\ runs = [p \in Procs |-> MaxRuns - 1]
  /\ clean = [p \in Procs |-> FALSE]
  /\ log = <<>>

SpecRace == InitRace /\ [][Next]_vars

\* ---- properties -----------------------------------------------------------
ProcLog(p) == SelectSeq(log, LAMBDA e : e.proc = p)

EventsOf(p, cid, op) == SelectSeq(log, LAMBDA e : e.proc = p /\ e.cid = cid /\ e.op = op)

Current(p) == run[p].campaigns[run[p].ci]

\* the step just taken is a call of process p that resolved
Resolved(p) ==
  /\ Len(ProcLog(p)') = Len(ProcLog(p)) + 1
  /\ ProcLog(p)'[Len(ProcLog(p)')].ok

StartsWith(s, prefix) ==
  Len(s) >= Len(prefix) /\ SubSeq(s, 1, Len(prefix)) = prefix

\* a batch row linked to the campaign, or carrying its name as campaign_name,
\* or whose name starts with the campaign's name
HasWork(table, campaign) ==
  \E b \in table :
    \/ b.lead_recycling_campaign_id = campaign.id
    \/ b.campaign_name = campaign.campaign_name
    \/ StartsWith(b.name, campaign.campaign_name)

\* C1: when the existing-work check of a campaign resolves while the tracker
\* holds a batch that is linked to it, carries its name as campaign_name or
\* has a name starting with its name, the campaign is skipped: skipped grows by
\* exactly one, the run moves on to the next campaign (or to the cleanup), the
\* tracker is not written and the only calls logged for the campaign are checks.
C1_ExistingWorkSkips ==
  [][ \A p \in Procs :
        (run[p].pc = "check" /\ Resolved(p) /\ HasWork(jobs_batch, Current(p)))
        => /\ run'[p].skipped = run[p].skipped + 1
           /\ run'[p].created = run[p].created
           /\ jobs_batch' = jobs_batch
           /\ run'[p].pc \in {"check", "end_recycling"}
           /\ run'[p].pc = "check" => run'[p].ci = run[p].ci + 1
           /\ \A k \in DOMAIN log' :
                (log'[k].proc = p /\ log'[k].cid = Current(p).id)
                => log'[k].op = "check" ]_vars

\* C2: in a run that follows only complete non-dry runs of the same process
\* (exit code 0, nothing else touching the stores), no batch is submitted and
\* created stays 0.
C2_SecondRunCreatesNothing ==
  \A p \in Procs :
    (runs[p] >= 2 /\ clean[p])
    => /\ run[p].created = 0
       /\ \A k \in DOMAIN log : log[k].proc = p => log[k].op # "post"

\* a second run has ended after a complete first run that submitted batches,
\* and it skipped campaigns
C2_Witness ==
  /\ runs[1] = 2 /\ clean[1]
  /\ run[1].pc = "exited" /\ run[1].exitCode = 0
  /\ run[1].skipped >= 2
  /\ \E b \in jobs_batch : b.batch_id >= 3 /\ b.lead_recycling_campaign_id = 5

\* the campaign's loop body has ended without a rejected call
CampaignDone(p, cid) ==
  /\ \E k \in DOMAIN log : log[k].proc = p /\ log[k].cid = cid
  /\ \A k \in DOMAIN log : (log[k].proc = p /\ log[k].cid = cid) => log[k].ok
  /\ \/ run[p].pc \in {"end_recycling", "end_gmaps", "exited"}
     \/ run[p].pc \in {"check", "cities", "post", "update", "delay"}
        /\ Current(p).id # cid

NameOf(p, cid) ==
  run[p].campaigns[CHOOSE j \in DOMAIN run[p].campaigns :
                      run[p].campaigns[j].id = cid].campaign_name

\* the n-th query of the cross product, target-major
ExpectedQuery(targets, n) ==
  Query(CATEGORIES[((n - 1) % Len(CATEGORIES)) + 1],
        targets[((n - 1) \div Len(CATEGORIES)) + 1])

CeilDiv(a, b) == CHOOSE n \in 0..a : n * b >= a /\ (n - 1) * b < a

RECURSIVE ConcatQueries(_)
ConcatQueries(posts) ==
  IF posts = <<>> THEN <<>> ELSE Head(posts).queries \o ConcatQueries(Tail(posts))

\* C3: for a resolved target list of size M >= 1 the planner holds the M*K
\* queries in target-major order; the j-th submission carries queries
\* (j-1)*2000+1 .. min(j*2000, M*K) of that sequence, so no partition is empty
\* or longer than 2000 and all but the last hold exactly 2000; there are never
\* more than ceil(M*K/2000) submissions, and once the campaign is done there
\* are exactly that many and their concatenation is the whole sequence.
C3_Partitioning ==
  \A p \in Procs : \A k \in DOMAIN log :
    (log[k].proc = p /\ log[k].op = "cities" /\ log[k].ok /\ log[k].cities # <<>>)
    => LET targets == log[k].cities
           total == Len(targets) * Len(CATEGORIES)
           parts == CeilDiv(total, 2000)
           posts == EventsOf(p, log[k].cid, "post")
           size(j) == IF j < parts THEN 2000 ELSE total - (parts - 1) * 2000
       IN  /\ log[k].planned = total
           /\ (run[p].pc \in {"post", "update", "delay"} /\ Current(p).id = log[k].cid)
              => run[p].queries = [n \in 1..total |-> ExpectedQuery(targets, n)]
           /\ Len(posts) <= parts
           /\ \A j \in 1..Len(posts) :
                /\ size(j) \in 1..2000
                /\ posts[j].queries =
                     [n \in 1..size(j) |-> ExpectedQuery(targets, (j - 1) * 2000 + n)]
           /\ (CampaignDone(p, log[k].cid) /\ ~env.DRY_RUN)
              => /\ Len(posts) = parts
                 /\ ConcatQueries(posts) = [n \in 1..total |-> ExpectedQuery(targets, n)]

\* a campaign of more than 4000 queries has been submitted in three parts,
\* the last one shorter than 2000
C3_Witness ==
  /\ CampaignDone(1, 4)
  /\ Len(EventsOf(1, 4, "post")) = 3
  /\ Len(EventsOf(1, 4, "post")[2].queries) = 2000
  /\ Len(EventsOf(1, 4, "post")[3].queries) \in 1..1999

\* the first n submissions of a multi-part campaign are named base + " Part j"
PartNames(p, cid) ==
  \A j \in 1..Len(EventsOf(p, cid, "post")) :
    j <= 9 => EventsOf(p, cid, "post")[j].name
                = NameOf(p, cid) \o <<" ", "P", "a", "r", "t", " ", DigitChars[j + 1]>>

MultiPart(p, k) ==
  /\ log[k].proc = p /\ log[k].op = "cities" /\ log[k].ok
  /\ log[k].planned > 2000 /\ ~env.DRY_RUN

\* C4 as stated: the submissions are named base + " Part i", and once the
\* campaign is done the name stored for each of its batches is the base name.
C4_StoredNameIsBase ==
  \A p \in Procs : \A k \in DOMAIN log :
    MultiPart(p, k)
    => /\ PartNames(p, log[k].cid)
       /\ CampaignDone(p, log[k].cid)
          => \A b \in jobs_batch :
               b.lead_recycling_campaign_id = log[k].cid
               => b.name = NameOf(p, log[k].cid)

\* C4 (amended): the submissions are named base + " Part i"; once the campaign
\* is done it has N batches in the tracker, each keeps its part-suffixed name
\* and each has campaign_name equal to the base name.
C4_CampaignNameIsBase ==
  \A p \in Procs : \A k \in DOMAIN log :
    MultiPart(p, k)
    => /\ PartNames(p, log[k].cid)
       /\ CampaignDone(p, log[k].cid)
          => LET mine == { b \in jobs_batch : b.lead_recycling_campaign_id = log[k].cid }
                 posts == EventsOf(p, log[k].cid, "post")
             IN  /\ Cardinality(mine) = Len(posts)
                 /\ Len(posts) = CeilDiv(log[k].planned, 2000)
                 /\ \A b \in mine :
                      /\ b.campaign_name = NameOf(p, log[k].cid)
                      /\ \E j \in 1..Len(posts) : b.name = posts[j].name
                      /\ b.name # NameOf(p, log[k].cid)

\* the three parts of the large campaign are in the tracker
C4_Witness ==
  /\ CampaignDone(1, 4)
  /\ ~env.DRY_RUN
  /\ Cardinality({ b \in jobs_batch : b.lead_recycling_campaign_id = 4 }) = 3
  /\ Len(EventsOf(1, 4, "update")) = 3

\* C5: a campaign that resolves to between 1 and 2000 queries is submitted at
\* most once, under its base name, and no correction write or delay is issued
\* for it; once the campaign is done in a non-dry run it has exactly one
\* submission.
C5_SinglePart ==
  \A p \in Procs : \A k \in DOMAIN log :
    (log[k].proc = p /\ log[k].op = "cities" /\ log[k].ok
       /\ log[k].planned \in 1..2000)
    => LET posts == EventsOf(p, log[k].cid, "post")
       IN  /\ Len(posts) <= 1
           /\ \A j \in 1..Len(posts) : posts[j].name = NameOf(p, log[k].cid)
           /\ EventsOf(p, log[k].cid, "update") = <<>>
           /\ EventsOf(p, log[k].cid, "delay") = <<>>
           /\ (CampaignDone(p, log[k].cid) /\ ~env.DRY_RUN) => Len(posts) = 1

\* a single-part campaign has been submitted and the run went on
C5_Witness ==
  \E cid \in {2, 3, 5} :
    /\ CampaignDone(1, cid)
    /\ Len(EventsOf(1, cid, "post")) = 1
    /\ run[1].created >= 1
    /\ \E b \in jobs_batch : b.lead_recycling_campaign_id = cid

\* the targets the first-class table campaign_cities assigns to a campaign
FirstClassTargets(cid) ==
  { [city_name |-> c.city_name, state_code |-> c.state_code] :
      c \in { x \in cities : \E cc \in campaign_cities :
                cc.campaign_id = cid /\ cc.city_id = x.id } }

\* the targets the legacy table client_city_claims gives a campaign through
\* its owning client
LegacyTargets(cid) ==
  { [city_name |-> c.city_name, state_code |-> c.state_code] :
      c \in { x \in cities : \E ccc \in client_city_claims, ic \in instant_campaigns :
                ic.id = cid /\ ic.client_id = ccc.client_id /\ ccc.city_id = x.id } }

Resolved_Targets(k) == { log[k].cities[j] : j \in DOMAIN log[k].cities }

\* C6: whenever campaign_cities has a row for the campaign, every resolved
\* target comes from campaign_cities; the legacy table contributes a target
\* of its own if and only if campaign_cities has no row for the campaign.
C6_FallbackPrecedence ==
  \A k \in DOMAIN log :
    (log[k].op = "cities" /\ log[k].ok)
    => /\ FirstClassTargets(log[k].cid) # {}
          => Resolved_Targets(k) \subseteq FirstClassTargets(log[k].cid)
       /\ FirstClassTargets(log[k].cid) = {}
          => Resolved_Targets(k) \subseteq LegacyTargets(log[k].cid)

\* C7: a process that created its two pools and has exited has called end()
\* exactly once on each of them, whatever call rejected on the way.
C7_BothReleasedOnce ==
  \A p \in Procs :
    (run[p].pc = "exited" /\ run[p].pools)
    => run[p].ended.recycling = 1 /\ run[p].ended.gmaps = 1

\* C8: with DRY_RUN on, no step changes the tracker store, created stays 0,
\* no submission and no correction write is issued; every resolved target
\* list is still planned (M targets give M*K queries), and a run that exits
\* with code 0 has checked every fetched campaign and resolved the targets of
\* every campaign the check found no work for.
C8_DryRunFrame ==
  [][ env.DRY_RUN
      => /\ jobs_batch' = jobs_batch
         /\ \A p \in Procs : run'[p].created = 0
         /\ \A k \in DOMAIN log' :
              /\ log'[k].op \notin {"post", "update", "delay"}
              /\ (log'[k].op = "cities" /\ log'[k].ok)
                 => log'[k].planned = Len(log'[k].cities) * Len(CATEGORIES)
         /\ \A p \in Procs :
              (run'[p].pc = "exited" /\ run'[p].exitCode = 0)
              => \A j \in DOMAIN run'[p].campaigns :
                   \E k \in DOMAIN log' :
                     /\ log'[k].proc = p /\ log'[k].op = "check" /\ log'[k].ok
                     /\ log'[k].cid = run'[p].campaigns[j].id
                     /\ log'[k].cnt = 0
                        => \E m \in DOMAIN log' :
                             /\ log'[m].proc = p /\ log'[m].op = "cities"
                             /\ log'[m].cid = log'[k].cid /\ log'[m].ok ]_vars

\* a dry run has planned the large campaign and exited with code 0, the
\* tracker still empty
C8_Witness ==
  /\ env.DRY_RUN
  /\ run[1].pc = "exited" /\ run[1].exitCode = 0
  /\ \E k \in DOMAIN log : log[k].op = "cities" /\ log[k].planned > 2000
  /\ jobs_batch = {}

\* the number of campaigns the current run of p has skipped, by the log
SkipsLogged(p) ==
  Cardinality({ k \in DOMAIN log :
     /\ log[k].proc = p /\ log[k].ok
     /\ \/ log[k].op = "check" /\ log[k].cnt > 0
        \/ log[k].op = "cities" /\ log[k].cities = <<>> })

\* C9: a campaign whose target query resolves to no row gets no submission,
\* no correction write and no delay, is counted in skipped exactly once, and
\* the call that follows is the existing-work check of a later campaign or the
\* release of the connections of a run that has not failed.
C9_NoTargetsSkips ==
  \A p \in Procs :
    /\ run[p].pc \notin {"idle", "off", "fetch"} /\ run[p].campaigns # <<>>
       => run[p].skipped = SkipsLogged(p)
    /\ \A k \in DOMAIN ProcLog(p) :
         LET e == ProcLog(p)[k]
         IN  (e.op = "cities" /\ e.ok /\ e.cities = <<>>)
             => /\ \A m \in DOMAIN ProcLog(p) :
                     ProcLog(p)[m].cid = e.cid
                     => ProcLog(p)[m].op \in {"check", "cities"}
                /\ k < Len(ProcLog(p))
                   => \/ /\ ProcLog(p)[k + 1].op = "check"
                         /\ ProcLog(p)[k + 1].cid > e.cid
                      \/ ProcLog(p)[k + 1].op = "end_recycling"
                /\ k = Len(ProcLog(p))
                   => /\ ~run[p].err
                      /\ run[p].pc \in {"check", "end_recycling"}

\* a campaign without targets was skipped and the next campaign was submitted
C9_Witness ==
  \E k \in DOMAIN log :
    /\ log[k].op = "cities" /\ log[k].ok /\ log[k].cities = <<>>
    /\ k + 1 \in DOMAIN log /\ log[k + 1].op = "check"
    /\ run[1].skipped = 1 /\ run[1].created = 1

\* C10: after the first rejected store query or submission of a run the
\* process issues nothing but the two releases, and every batch whose
\* submission resolved in this run is still in the tracker store.
C10_FirstErrorFatal ==
  /\ \A k \in DOMAIN log :
       (~log[k].ok /\ log[k].op \in {"campaigns", "check", "cities", "post", "update"})
       => \A m \in DOMAIN log :
            (m > k /\ log[m].proc = log[k].proc)
            => log[m].op \in {"end_recycling", "end_gmaps"}
  /\ \A k \in DOMAIN log :
       (log[k].op = "post" /\ log[k].ok)
       => \E b \in jobs_batch :
            b.name = log[k].name /\ b.lead_recycling_campaign_id = log[k].cid

\* a run failed in its second campaign after submitting the first, and ended
C10_Witness ==
  /\ run[1].pc = "exited" /\ run[1].exitCode = 1
  /\ \E k, m \in DOMAIN log :
       /\ k < m
       /\ log[k].op = "post" /\ log[k].ok
       /\ ~log[m].ok /\ log[m].op \in {"check", "cities", "post"}
       /\ log[m].cid > log[k].cid
       /\ \E b \in jobs_batch : b.lead_recycling_campaign_id = log[k].cid

\* every campaign the run fetched went through the whole loop body
AllProcessed(p) ==
  \A j \in DOMAIN run[p].campaigns :
    LET cid == run[p].campaigns[j].id
    IN  \E k \in DOMAIN log :
          /\ log[k].proc = p /\ log[k].cid = cid /\ log[k].op = "check" /\ log[k].ok
          /\ \/ log[k].cnt > 0
             \/ \E m \in DOMAIN log :
                  /\ log[m].proc = p /\ log[m].cid = cid
                  /\ log[m].op = "cities" /\ log[m].ok
                  /\ \/ log[m].cities = <<>>
                     \/ env.DRY_RUN
                     \/ Len(SelectSeq(EventsOf(p, cid, "post"), LAMBDA e : e.ok))
                          = CeilDiv(log[m].planned, 2000)

\* no call of the run was rejected and both connection strings were set
NoFatalError(p) ==
  /\ env.RECYCLING_DB_URL /\ env.GMAPS_DB_URL
  /\ \A k \in DOMAIN log : log[k].proc = p => log[k].ok

\* C11: a process that has exited has exit code 0 or 1; the code is 0 exactly
\* when both connection strings were set and no call of the run (read, check,
\* target query, submission, correction write, release) was rejected, and then
\* the campaign read resolved and every fetched campaign was processed.
C11_ExitContract ==
  \A p \in Procs :
    run[p].pc = "exited"
    => /\ run[p].exitCode \in {0, 1}
       /\ run[p].exitCode = 0 <=> NoFatalError(p)
       /\ run[p].exitCode = 0
          => /\ \E k \in DOMAIN log : log[k].proc = p /\ log[k].op = "campaigns"
             /\ AllProcessed(p)

\* a run that found no campaign has exited with code 0
C11_Witness ==
  /\ run[1].pc = "exited" /\ run[1].exitCode = 0
  /\ run[1].pools /\ run[1].campaigns = <<>>
  /\ \E k \in DOMAIN log : log[k].op = "campaigns" /\ log[k].ok

OkPosts(p) == SelectSeq(log, LAMBDA e : e.proc = p /\ e.op = "post" /\ e.ok)

PlannedFor(p, cid) ==
  LET e == EventsOf(p, cid, "cities") IN IF e = <<>> THEN 0 ELSE e[1].planned

Started(p) == run[p].pc \notin {"idle", "off", "fetch"} /\ run[p].pools

\* C12 as stated: at every point created is the number of batches submitted
\* so far and skipped the number of campaigns skipped so far; at the end of a
\* complete non-dry run skipped plus the campaigns with submissions is the
\* number of campaigns fetched.
C12_CreatedIsSubmitted ==
  \A p \in Procs :
    Started(p)
    => /\ run[p].created = Len(OkPosts(p))
       /\ run[p].skipped = SkipsLogged(p)
       /\ (run[p].pc = "exited" /\ run[p].exitCode = 0 /\ ~env.DRY_RUN)
          => run[p].skipped + Cardinality({ OkPosts(p)[j].cid : j \in DOMAIN OkPosts(p) })
               = Len(run[p].campaigns)

\* the submissions whose part is complete: single-part ones, and multi-part
\* ones whose correction write has resolved
Counted(p) ==
  SelectSeq(OkPosts(p), LAMBDA e :
     \/ PlannedFor(p, e.cid) <= 2000
     \/ \E k \in DOMAIN log :
          /\ log[k].proc = p /\ log[k].op = "update" /\ log[k].ok
          /\ log[k].cid = e.cid /\ log[k].part = e.part)

\* C12 (amended): created is the number of submitted batches whose part is
\* complete (for a multi-part campaign: whose correction write has resolved),
\* so it is the number of submitted batches or one less; skipped is the number
\* of campaigns skipped so far; at the end of a complete non-dry run created
\* is the number of batches submitted and skipped plus the campaigns with
\* submissions is the number of campaigns fetched.
C12_Counters ==
  \A p \in Procs :
    Started(p)
    => /\ run[p].created = Len(Counted(p))
       /\ Len(OkPosts(p)) - run[p].created \in {0, 1}
       /\ run[p].skipped = SkipsLogged(p)
       /\ (run[p].pc = "exited" /\ run[p].exitCode = 0 /\ ~env.DRY_RUN)
          => /\ run[p].created = Len(OkPosts(p))
             /\ run[p].skipped
                  + Cardinality({ OkPosts(p)[j].cid : j \in DOMAIN OkPosts(p) })
                  = Len(run[p].campaigns)

\* a complete run has submitted the three parts of one campaign and one part
\* of another
C12_Witness ==
  /\ run[1].pc = "exited" /\ run[1].exitCode = 0 /\ ~env.DRY_RUN
  /\ Len(run[1].campaigns) = 2
  /\ run[1].created = 4 /\ run[1].skipped = 0

\* some six successive characters of s spell "county" in some letter case
HasCounty(s) ==
  \E i \in 1..Len(s) :
    /\ i + 5 <= Len(s)
    /\ Lower(SubSeq(s, i, i + 5)) = <<"c", "o", "u", "n", "t", "y">>

\* C13: no resolved target has a city name containing "county" in any letter
\* case, from whichever table it comes; the resolved targets are exactly the
\* other targets of the two tables; a campaign all of whose targets are
\* county-level resolves to no target and is skipped.
C13_CountyFiltered ==
  \A k \in DOMAIN log :
    (log[k].op = "cities" /\ log[k].ok)
    => LET source == FirstClassTargets(log[k].cid) \cup LegacyTargets(log[k].cid)
       IN  /\ \A j \in DOMAIN log[k].cities : ~HasCounty(log[k].cities[j].city_name)
           /\ { [city_name |-> t.city_name, state_code |-> t.state_code] :
                  t \in Resolved_Targets(k) }
                = { t \in source : ~HasCounty(t.city_name) }
           /\ (\A t \in source : HasCounty(t.city_name))
              => /\ log[k].cities = <<>>
                 /\ EventsOf(log[k].proc, log[k].cid, "post") = <<>>
                 /\ run[log[k].proc].skipped >= 1

\* a campaign with county rows only was skipped, and a campaign with a county
\* row among others kept the others
C13_Witness ==
  /\ \E k \in DOMAIN log :
       /\ log[k].op = "cities" /\ log[k].cid = 1 /\ log[k].cities = <<>>
       /\ FirstClassTargets(1) \cup LegacyTargets(1) # {}
  /\ \E k \in DOMAIN log :
       /\ log[k].op = "cities" /\ log[k].cid = 3 /\ log[k].cities # <<>>
       /\ \E t \in FirstClassTargets(3) : HasCounty(t.city_name)
  /\ run[1].skipped = 1

\* the calls of process p inside the campaign loop, in the order issued
LoopLog(p) ==
  SelectSeq(log, LAMBDA e :
     e.proc = p /\ e.op \in {"check", "cities", "post", "update", "delay"})

\* C14: the fetched campaigns are in strictly ascending id order and the calls
\* of a run follow it: a call for another campaign comes only after the
\* previous campaign's last call has resolved, it is the existing-work check
\* of the next fetched campaign, and no call for an earlier campaign follows;
\* inside a campaign the first submission follows the target query, and the
\* submission of part i+1 follows the delay that follows the resolved
\* submission (multi-part: the resolved correction write) of part i.
C14_Sequential ==
  \A p \in Procs :
    /\ \A j \in DOMAIN run[p].campaigns :
         j > 1 => run[p].campaigns[j - 1].id < run[p].campaigns[j].id
    /\ \A k \in DOMAIN LoopLog(p) :
         LET e == LoopLog(p)[k]
             d == IF k > 1 THEN LoopLog(p)[k - 1] ELSE e
         IN  /\ e.op = "check"
                => /\ \E j \in DOMAIN run[p].campaigns :
                        /\ run[p].campaigns[j].id = e.cid
                        /\ IF j = 1 THEN k = 1
                           ELSE k > 1 /\ d.cid = run[p].campaigns[j - 1].id
                   /\ k > 1 => /\ d.ok
                               /\ d.op \in {"check", "cities", "post", "update"}
             /\ e.op # "check"
                => /\ k > 1 /\ d.ok /\ d.cid = e.cid
                   /\ e.op = "cities" => d.op = "check" /\ d.cnt = 0
                   /\ (e.op = "post" /\ e.part = 0) => d.op = "cities"
                   /\ (e.op = "post" /\ e.part > 0)
                      => d.op = "delay" /\ d.part = e.part - 1
                   /\ e.op = "update" => d.op = "post" /\ d.part = e.part
                   /\ e.op = "delay"
                      => /\ d.part = e.part
                         /\ d.op = IF PlannedFor(p, e.cid) > 2000 THEN "update"
                                   ELSE "post"

\* the large campaign went through its three parts before the next campaign
\* was checked and submitted
C14_Witness ==
  /\ Len(run[1].campaigns) = 2
  /\ Len(EventsOf(1, 4, "update")) = 3
  /\ \E k \in DOMAIN EventsOf(1, 5, "post") : EventsOf(1, 5, "post")[k].ok
  /\ run[1].pc = "exited"

\* C15: a campaign of N parts has at most N-1 delays, one after each of the
\* parts 1..N-1 and none after part N; each delay directly follows the
\* resolved submission (multi-part: correction write) of its part and is
\* directly followed by the submission of the next part of the same campaign;
\* once the campaign is done there are exactly N-1; a single-part campaign
\* has none, and the process never waits after a last part.
C15_Pacing ==
  \A p \in Procs :
    /\ run[p].pc = "delay" => run[p].i < run[p].totalParts - 1
    /\ \A k \in DOMAIN log :
         (log[k].proc = p /\ log[k].op = "cities" /\ log[k].ok
            /\ log[k].planned > 0 /\ ~env.DRY_RUN)
         => LET parts == CeilDiv(log[k].planned, 2000)
                delays == EventsOf(p, log[k].cid, "delay")
            IN  /\ Len(delays) <= parts - 1
                /\ \A j \in DOMAIN delays : delays[j].part = j - 1
                /\ CampaignDone(p, log[k].cid) => Len(delays) = parts - 1
    /\ \A k \in DOMAIN ProcLog(p) :
         ProcLog(p)[k].op = "delay"
         => /\ k > 1
            /\ ProcLog(p)[k - 1].op \in {"post", "update"}
            /\ ProcLog(p)[k - 1].ok
            /\ ProcLog(p)[k - 1].cid = ProcLog(p)[k].cid
            /\ ProcLog(p)[k - 1].part = ProcLog(p)[k].part
            /\ k < Len(ProcLog(p))
               => /\ ProcLog(p)[k + 1].op = "post"
                  /\ ProcLog(p)[k + 1].cid = ProcLog(p)[k].cid
                  /\ ProcLog(p)[k + 1].part = ProcLog(p)[k].part + 1

\* three parts, two delays, and the next campaign's submission follows the
\* last part without a delay
C15_Witness ==
  /\ CampaignDone(1, 4)
  /\ Len(EventsOf(1, 4, "post")) = 3
  /\ Len(EventsOf(1, 4, "delay")) = 2
  /\ Len(EventsOf(1, 5, "post")) = 1
  /\ EventsOf(1, 5, "delay") = <<>>

\* C17: every submission carries autoImport = true and the campaign's id; its
\* targetStates lists, without repetition, exactly the state codes of all the
\* campaign's resolved targets, so all parts of a campaign carry the same list.
C17_Metadata ==
  \A k \in DOMAIN log :
    log[k].op = "post"
    => /\ log[k].autoImport
       /\ log[k].lrc = log[k].cid
       /\ \E m \in DOMAIN log :
            /\ m < k /\ log[m].proc = log[k].proc /\ log[m].cid = log[k].cid
            /\ log[m].op = "cities"
            /\ { log[k].targetStates[j] : j \in DOMAIN log[k].targetStates }
                 = { log[m].cities[j].state_code : j \in DOMAIN log[m].cities }
       /\ \A i, j \in DOMAIN log[k].targetStates :
            log[k].targetStates[i] = log[k].targetStates[j] => i = j
       /\ \A m \in DOMAIN log :
            (log[m].op = "post" /\ log[m].proc = log[k].proc /\ log[m].cid = log[k].cid)
            => log[m].targetStates = log[k].targetStates

\* the last part of the large campaign holds queries of one state only and
\* still carries the three state codes
C17_Witness ==
  \E k \in DOMAIN log :
    /\ log[k].op = "post" /\ log[k].cid = 4 /\ log[k].part = 2 /\ log[k].ok
    /\ Len(log[k].targetStates) = 3
    /\ \A i, j \in DOMAIN log[k].queries :
         log[k].queries[i][Len(log[k].queries[i])]
           = log[k].queries[j][Len(log[k].queries[j])]

\* C18 as stated: no two resolved targets of a campaign have the same state
\* code and city names that are equal when letter case is ignored.
C18_CaseInsensitiveDistinct ==
  \A k \in DOMAIN log :
    (log[k].op = "cities" /\ log[k].ok)
    => \A i, j \in DOMAIN log[k].cities :
         (/\ log[k].cities[i].state_code = log[k].cities[j].state_code
          /\ Lower(log[k].cities[i].city_name) = Lower(log[k].cities[j].city_name))
         => i = j

\* C18 (amended): no two resolved targets of a campaign have the same state
\* code and the same city name; city rows with the same name and state code
\* collapse to one target, rows that differ in letter case stay apart, and M
\* resolved targets give M*K queries.
C18_ExactDistinct ==
  \A k \in DOMAIN log :
    (log[k].op = "cities" /\ log[k].ok)
    => /\ \A i, j \in DOMAIN log[k].cities :
            (/\ log[k].cities[i].state_code = log[k].cities[j].state_code
             /\ log[k].cities[i].city_name = log[k].cities[j].city_name)
            => i = j
       /\ Len(log[k].cities)
            = Cardinality({ t \in FirstClassTargets(log[k].cid)
                                    \cup LegacyTargets(log[k].cid) :
                              ~HasCounty(t.city_name) })
       /\ log[k].planned = Len(log[k].cities) * Len(CATEGORIES)

\* two city rows with the same name and state gave one target, and a third
\* that differs in letter case gave a second one
C18_Witness ==
  \E k \in DOMAIN log :
    /\ log[k].op = "cities" /\ log[k].cid = 3 /\ log[k].ok
    /\ Len(log[k].cities) = 2
    /\ Cardinality({ x \in cities : x.id \in {1, 2, 3}
                       /\ \E cc \in campaign_cities :
                            cc.campaign_id = 3 /\ cc.city_id = x.id }) = 3
    /\ Lower(log[k].cities[1].city_name) = Lower(log[k].cities[2].city_name)
    /\ log[k].cities[1].state_code = log[k].cities[2].state_code
    /\ log[k].planned = 2 * Len(CATEGORIES)

\* the batch rows linked to the campaign
LinkedRows(table, cid) == { b \in table : b.lead_recycling_campaign_id = cid }

\* process p has passed the existing-work check of the campaign and is still
\* inside its loop body
Inside(p, cid) ==
  /\ run[p].pc \in {"cities", "post", "update", "delay"}
  /\ Current(p).id = cid

\* C19: once the tracker holds batches linked to a campaign and no run is
\* inside that campaign's loop body (the run that submitted them has aborted
\* or moved on), every later step leaves exactly those batches, stored names
\* included, and no run enters the loop body again: each later check of the
\* campaign resolves to a skip.  So a campaign left with some of its parts
\* stays that way through any number of re-runs.
C19_NoRecovery ==
  [][ \A c \in instant_campaigns :
        (/\ LinkedRows(jobs_batch, c.id) # {}
         /\ \A q \in Procs : ~Inside(q, c.id))
        => /\ LinkedRows(jobs_batch', c.id) = LinkedRows(jobs_batch, c.id)
           /\ \A q \in Procs :
                /\ ~(run'[q].pc \in {"cities", "post", "update", "delay"}
                     /\ run'[q].campaigns[run'[q].ci].id = c.id)
                /\ (run[q].pc = "check" /\ Current(q).id = c.id /\ Resolved(q))
                   => run'[q].skipped = run[q].skipped + 1 ]_vars

\* a second run has completed after the first one aborted inside the
\* three-part campaign: the campaign still has one or two batches, one of them
\* with the uncorrected part name, and the second run submitted nothing for it
C19_Witness ==
  /\ runs[1] = 2 /\ run[1].pc = "exited" /\ run[1].exitCode = 0
  /\ run[1].skipped >= 1
  /\ Cardinality(LinkedRows(jobs_batch, 4)) \in {1, 2}
  /\ \E b \in LinkedRows(jobs_batch, 4) : b.campaign_name # NameC
  /\ EventsOf(1, 4, "check") # <<>>
  /\ EventsOf(1, 4, "post") = <<>>

\* C20: when the existing-work check of a campaign resolves while the tracker
\* holds a batch whose name starts with the campaign's name, whatever campaign
\* the batch was created for, the campaign is skipped and no target query or
\* submission is made for it.
C20_PrefixCollision ==
  [][ \A p \in Procs :
        (/\ run[p].pc = "check" /\ Resolved(p)
         /\ \E b \in jobs_batch : StartsWith(b.name, Current(p).campaign_name))
        => /\ run'[p].pc # "cities"
           /\ run'[p].skipped = run[p].skipped + 1
           /\ ProcLog(p)'[Len(ProcLog(p)')].cnt > 0 ]_vars

\* C16: no lock and no uniqueness check stands between two runs: a check that
\* resolves while the tracker holds no work for the campaign lets the run go
\* on to the target query, wherever the other run is (also when the other run
\* has passed the same campaign's check and has not submitted yet), and every
\* resolved submission stores one more batch linked to the campaign, also when
\* the tracker already holds batches of the other run for this campaign.
C16_NoExclusion ==
  [][ \A p \in Procs :
        /\ (run[p].pc = "check" /\ Resolved(p) /\ ~HasWork(jobs_batch, Current(p)))
           => run'[p].pc = "cities"
        /\ (run[p].pc = "post" /\ Resolved(p))
           => /\ Cardinality(jobs_batch') = Cardinality(jobs_batch) + 1
              /\ Cardinality(LinkedRows(jobs_batch', Current(p).id))
                   = Cardinality(LinkedRows(jobs_batch, Current(p).id)) + 1 ]_vars

\* both runs found no work for the same campaign (so each check resolved
\* before the other run's first batch was stored), both submitted, and the
\* tracker holds two batches of the same name linked to the campaign
C16_Witness ==
  \E c \in instant_campaigns :
    /\ \A p \in Procs :
         /\ \E k \in DOMAIN EventsOf(p, c.id, "check") :
              EventsOf(p, c.id, "check")[k].ok /\ EventsOf(p, c.id, "check")[k].cnt = 0
         /\ \E k \in DOMAIN EventsOf(p, c.id, "post") :
              EventsOf(p, c.id, "post")[k].ok /\ EventsOf(p, c.id, "post")[k].part = 0
    /\ \E a, b \in LinkedRows(jobs_batch, c.id) :
         a.batch_id # b.batch_id /\ a.name = b.name

====
